---- MODULE Spec2Model ----
(***************************************************************************)
(* Model of generate_data.py: the conversion of Classes.csv into the       *)
(* nested document of data.json (batch -> category -> text -> playlists).  *)
(*                                                                         *)
(* A Python str is a sequence of one-character strings, so that lower(),   *)
(* replace() and strip() act on characters as the code's do.  The literals *)
(* the code only stores and that no name read from the file can equal (the *)
(* descriptions, the " study" suffix, the site information) are kept as    *)
(* one-element sequences holding the literal.                              *)
(***************************************************************************)
EXTENDS Integers, Sequences, FiniteSets, TLC

VARIABLES pc, row, rows_done, data, outfile, nk_name, nk_key

vars == <<pc, row, rows_done, data, outfile, nk_name, nk_key>>

(* ---------------- bounds ---------------- *)

\* number of rows the reader yields before the end of Classes.csv
MaxRows == 2

\* length of the strings normalize_key is applied to in SpecNorm
MaxLen == 3

(* ---------------- str methods ---------------- *)

UpperCase == <<"A","B","C","D","E","F","G","H","I","J","K","L","M",
               "N","O","P","Q","R","S","T","U","V","W","X","Y","Z">>

LowerCase == <<"a","b","c","d","e","f","g","h","i","j","k","l","m",
               "n","o","p","q","r","s","t","u","v","w","x","y","z">>

\* the characters str.strip() removes (the ASCII ones)
Whitespace == {" ", "\t", "\n", "\r", "\f"}

\* the lower-case letter of each upper-case letter
LowerOf ==
  [c \in {UpperCase[i] : i \in 1..Len(UpperCase)} |->
     LowerCase[CHOOSE i \in 1..Len(UpperCase) : UpperCase[i] = c]]

LowerChar(c) == IF c \in DOMAIN LowerOf THEN LowerOf[c] ELSE c

\* str.lower()
Lower(s) == [i \in 1..Len(s) |-> LowerChar(s[i])]

\* str.replace(old, new) for a one-character old and a one-character new
ReplaceChar(s, old, new) == [i \in 1..Len(s) |-> IF s[i] = old THEN new ELSE s[i]]

\* str.replace(old, "") for a one-character old
RemoveChar(s, old) == SelectSeq(s, LAMBDA c : c # old)

RECURSIVE LStrip(_)
LStrip(s) == IF s # <<>> /\ Head(s) \in Whitespace THEN LStrip(Tail(s)) ELSE s

RECURSIVE RStrip(_)
RStrip(s) ==
  IF s # <<>> /\ s[Len(s)] \in Whitespace THEN RStrip(SubSeq(s, 1, Len(s) - 1)) ELSE s

\* str.strip()
Strip(s) == RStrip(LStrip(s))

Digits == <<"0","1","2","3","4","5","6","7","8","9">>

IsDigit(c) == \E i \in 1..Len(Digits) : Digits[i] = c

DigitValue(c) == (CHOOSE i \in 1..Len(Digits) : Digits[i] = c) - 1

\* the strings int() accepts, among those over letters, digits and a sign
IsIntLiteral(s) ==
  LET body == IF s # <<>> /\ s[1] \in {"+", "-"} THEN Tail(s) ELSE s
  IN  body # <<>> /\ \A i \in 1..Len(body) : IsDigit(body[i])

RECURSIVE DecimalValue(_)
DecimalValue(s) ==
  IF s = <<>> THEN 0 ELSE 10 * DecimalValue(SubSeq(s, 1, Len(s) - 1)) + DigitValue(s[Len(s)])

\* int(s) for a string IsIntLiteral accepts
ParseInt(s) ==
  IF s[1] = "-" THEN 0 - DecimalValue(Tail(s))
  ELSE IF s[1] = "+" THEN DecimalValue(Tail(s))
  ELSE DecimalValue(s)

(* ---------------- normalize_key ---------------- *)

\* normalize_key with strip() applied first instead of last
normalize_key_strip_first(s) ==
  RemoveChar(RemoveChar(ReplaceChar(ReplaceChar(Lower(Strip(s)), " ", "_"), "-", "_"), "|"), ".")

normalize_key(s) ==
  Strip(RemoveChar(RemoveChar(ReplaceChar(ReplaceChar(Lower(s), " ", "_"), "-", "_"), "|"), "."))

(* ---------------- metadata lookup ---------------- *)

Dhanyosi == <<"D","h","a","n","y","o","s","i">>
Tattvamasi == <<"T","a","t","t","v","a","m","a","s","i">>
Jignasu == <<"J","i","g","n","a","s","u">>
Miscellaneous == <<"M","i","s","c","e","l","l","a","n","e","o","u","s">>
Upanishad == <<"U","p","a","n","i","s","h","a","d">>
BhagawadGita == <<"B","h","a","g","a","w","a","d"," ","G","i","t","a">>
Prakaranam == <<"P","r","a","k","a","r","a","n","a","m">>
Brahmasutram == <<"B","r","a","h","m","a","s","u","t","r","a","m">>
Satsang == <<"S","a","t","s","a","n","g">>

create_batch_structure == [name |-> <<>>, description |-> <<>>, categories |-> <<>>]

create_category_structure == [name |-> <<>>, description |-> <<>>, texts |-> <<>>]

get_batch_info(batch_name) ==
  CASE batch_name = Dhanyosi ->
         [name |-> <<"D","h","a","n","y","o","s","i"," ","B","a","t","c","h">>, description |-> <<"2021-2025">>]
    [] batch_name = Tattvamasi ->
         [name |-> <<"T","a","t","t","v","a","m","a","s","i"," ","B","a","t","c","h">>, description |-> <<"Coimbatore Batch">>]
    [] batch_name = Jignasu ->
         [name |-> <<"J","i","g","n","a","s","u"," ","B","a","t","c","h">>, description |-> <<"2024-2028">>]
    [] batch_name = Miscellaneous ->
         [name |-> <<"M","i","s","c","e","l","l","a","n","e","o","u","s">>,
          description |-> <<"Special programs and general spiritual content">>]
    [] OTHER -> [name |-> batch_name, description |-> <<>>]

get_category_info(category_name) ==
  CASE category_name = Upanishad ->
         [name |-> <<"U","p","a","n","i","s","h","a","d","s">>,
          description |-> <<"Ancient wisdom texts - the culmination of Vedic knowledge">>]
    [] category_name = BhagawadGita ->
         [name |-> <<"B","h","a","g","a","v","a","d"," ","G","i","t","a">>,
          description |-> <<"The song of the Lord - practical spirituality">>]
    [] category_name = Prakaranam ->
         [name |-> <<"P","r","a","k","a","r","a","n","a","m">>,
          description |-> <<"Introductory and foundational texts">>]
    [] category_name = Brahmasutram ->
         [name |-> <<"B","r","a","h","m","a","s","u","t","r","a","m">>,
          description |-> <<"The aphorisms of Brahman - systematic philosophy">>]
    [] category_name = Satsang ->
         [name |-> <<"S","a","t","s","a","n","g">>,
          description |-> <<"Question and answer sessions, discussions">>]
    [] OTHER -> [name |-> category_name, description |-> <<>>]

(* ---------------- one row of the reader ---------------- *)

Columns == {"Batch", "Category", "Text", "Video Count", "Playlist", "Is Ongoing", "Latest Link"}

\* a row lacking a column makes row[...] raise; a non-empty Video Count that
\* int() rejects raises ValueError: both abort the run, before the row
\* changes data
RowRaises(r) ==
  \/ DOMAIN r # Columns
  \/ /\ Strip(r["Video Count"]) # <<>>
     /\ ~IsIntLiteral(Strip(r["Video Count"]))

batch_name_of(r) == Strip(r["Batch"])

category_name_of(r) == Strip(r["Category"])

text_name_of(r) == Strip(r["Text"])

video_count_of(r) ==
  IF Strip(r["Video Count"]) # <<>> THEN ParseInt(Strip(r["Video Count"])) ELSE 0

playlist_id_of(r) == Strip(r["Playlist"])

is_ongoing_of(r) == Lower(Strip(r["Is Ongoing"])) = <<"y","e","s">>

\* None is the empty string here: the code only tests latest_link for truth
latest_link_of(r) == Strip(r["Latest Link"])

ongoing_key == <<"o","n","g","o","i","n","g">>

(* ---------------- the aggregation of one row ---------------- *)

\* the batch's name and description rewritten by every row of the batch
ensure_batch_overwrite(batches, batch_name) ==
  LET batch_key == normalize_key(batch_name)
      info == get_batch_info(batch_name)
      old == IF batch_key \in DOMAIN batches THEN batches[batch_key]
             ELSE create_batch_structure
  IN  (batch_key :> [old EXCEPT !.name = info.name, !.description = info.description])
        @@ batches

ensure_batch(batches, batch_name) ==
  LET batch_key == normalize_key(batch_name)
      info == get_batch_info(batch_name)
  IN  IF batch_key \notin DOMAIN batches
      THEN batches @@ (batch_key :> [create_batch_structure EXCEPT
                                       !.name = info.name,
                                       !.description = info.description])
      ELSE batches

\* every row also filed under the ongoing category
categories_to_add_always_ongoing(category_name, is_ongoing) ==
  LET natural_category_info == get_category_info(category_name)
  IN  << [key |-> normalize_key(category_name),
          name |-> natural_category_info.name,
          description |-> natural_category_info.description],
         [key |-> ongoing_key,
          name |-> <<"O","n","g","o","i","n","g">>,
          description |-> <<"Current studies across different texts">>] >>

categories_to_add(category_name, is_ongoing) ==
  LET natural_category_info == get_category_info(category_name)
      natural == [key |-> normalize_key(category_name),
                  name |-> natural_category_info.name,
                  description |-> natural_category_info.description]
  IN  IF is_ongoing
      THEN << natural,
              [key |-> ongoing_key,
               name |-> <<"O","n","g","o","i","n","g">>,
               description |-> <<"Current studies across different texts">>] >>
      ELSE << natural >>

\* latest_video_id emitted for every ongoing-category entry, empty when no link
playlist_entry_empty_link(category_key, text_name, playlist_id, video_count, is_ongoing, latest_link) ==
  LET base == [name |-> text_name,
               playlist_id |-> playlist_id,
               description |-> text_name \o <<" study">>,
               video_count |-> video_count]
  IN  IF is_ongoing /\ category_key = ongoing_key
      THEN base @@ [latest_video_id |-> latest_link]
      ELSE base

playlist_entry(category_key, text_name, playlist_id, video_count, is_ongoing, latest_link) ==
  LET base == [name |-> text_name,
               playlist_id |-> playlist_id,
               description |-> text_name \o <<" study">>,
               video_count |-> video_count]
  IN  IF is_ongoing /\ latest_link # <<>> /\ category_key = ongoing_key
      THEN base @@ [latest_video_id |-> latest_link]
      ELSE base

\* an entry equal to one already listed is not listed again
append_playlist_dedupe(playlists, entry) ==
  IF \E i \in 1..Len(playlists) : playlists[i] = entry
  THEN playlists
  ELSE Append(playlists, entry)

\* a playlist without videos is not listed
append_playlist_skip_empty(playlists, entry) ==
  IF entry.video_count = 0 THEN playlists ELSE Append(playlists, entry)

append_playlist(playlists, entry) == Append(playlists, entry)

\* the body of the loop over categories_to_add, for one category_info
add_to_category(batches, batch_key, category_info, text_name, playlist_id, video_count, is_ongoing, latest_link) ==
  LET category_key == category_info.key
      cats0 == batches[batch_key].categories
      cats1 == IF category_key \notin DOMAIN cats0
               THEN cats0 @@ (category_key :> [create_category_structure EXCEPT
                                                 !.name = category_info.name,
                                                 !.description = category_info.description])
               ELSE cats0
      text_key == normalize_key(text_name)
      texts0 == cats1[category_key].texts
      texts1 == IF text_key \notin DOMAIN texts0
                THEN texts0 @@ (text_key :> [name |-> text_name,
                                             description |-> text_name \o <<" study">>,
                                             playlists |-> <<>>])
                ELSE texts0
      entry == playlist_entry(category_key, text_name, playlist_id, video_count,
                              is_ongoing, latest_link)
      texts2 == [texts1 EXCEPT ![text_key].playlists = append_playlist(@, entry)]
  IN  [batches EXCEPT ![batch_key].categories =
         [cats1 EXCEPT ![category_key].texts = texts2]]

\* the loop over categories_to_add
RECURSIVE add_to_categories(_, _, _, _, _, _, _, _)
add_to_categories(batches, batch_key, infos, text_name, playlist_id, video_count, is_ongoing, latest_link) ==
  IF infos = <<>> THEN batches
  ELSE add_to_categories(
         add_to_category(batches, batch_key, Head(infos), text_name, playlist_id,
                         video_count, is_ongoing, latest_link),
         batch_key, Tail(infos), text_name, playlist_id,
         video_count, is_ongoing, latest_link)

\* the body of the loop over the reader, for one row that does not raise
process_row(batches, r) ==
  add_to_categories(ensure_batch(batches, batch_name_of(r)),
                    normalize_key(batch_name_of(r)),
                    categories_to_add(category_name_of(r), is_ongoing_of(r)),
                    text_name_of(r), playlist_id_of(r), video_count_of(r),
                    is_ongoing_of(r), latest_link_of(r))

(* ---------------- the summary ---------------- *)

\* sum(...) over the values of a mapping of numbers
RECURSIVE Sum(_)
Sum(f) ==
  IF DOMAIN f = {} THEN 0
  ELSE LET k == CHOOSE x \in DOMAIN f : TRUE
       IN  f[k] + Sum([x \in DOMAIN f \ {k} |-> f[x]])

\* total_categories counted as the number of distinct category keys
compute_metadata_distinct_categories(batches) ==
  [total_batches |-> Cardinality(DOMAIN batches),
   total_categories |->
     Cardinality(UNION {DOMAIN batches[b].categories : b \in DOMAIN batches}),
   total_texts |->
     Sum([b \in DOMAIN batches |->
            Sum([c \in DOMAIN batches[b].categories |->
                   Cardinality(DOMAIN batches[b].categories[c].texts)])]),
   total_playlists |->
     Sum([b \in DOMAIN batches |->
            Sum([c \in DOMAIN batches[b].categories |->
                   Sum([t \in DOMAIN batches[b].categories[c].texts |->
                          Len(batches[b].categories[c].texts[t].playlists)])])]),
   youtube_api_version |-> <<"v3">>,
   cache_duration |-> 3600,
   update_frequency |-> <<"daily">>]

compute_metadata(batches) ==
  [total_batches |-> Cardinality(DOMAIN batches),
   total_categories |->
     Sum([b \in DOMAIN batches |-> Cardinality(DOMAIN batches[b].categories)]),
   total_texts |->
     Sum([b \in DOMAIN batches |->
            Sum([c \in DOMAIN batches[b].categories |->
                   Cardinality(DOMAIN batches[b].categories[c].texts)])]),
   total_playlists |->
     Sum([b \in DOMAIN batches |->
            Sum([c \in DOMAIN batches[b].categories |->
                   Sum([t \in DOMAIN batches[b].categories[c].texts |->
                          Len(batches[b].categories[c].texts[t].playlists)])])]),
   youtube_api_version |-> <<"v3">>,
   cache_duration |-> 3600,
   update_frequency |-> <<"daily">>]

(* ---------------- the rows Classes.csv may hold ---------------- *)

BatchFields == {Dhanyosi, Jignasu}

CategoryFields == {Satsang, <<"O","n","g","o","i","n","g">>}

TextFields == {<<"G","i","t","a">>}

VideoCountFields == {<<"1","2">>}

PlaylistFields == {<<"P","L","1">>}

IsOngoingFields == {<<" ","Y","E","S">>, <<"n","o">>}

LatestLinkFields == {<<" ">>, <<"V","9"," ">>}

MkRow(b, c, t, v, p, o, l) ==
  [col \in Columns |->
     CASE col = "Batch" -> b
       [] col = "Category" -> c
       [] col = "Text" -> t
       [] col = "Video Count" -> v
       [] col = "Playlist" -> p
       [] col = "Is Ongoing" -> o
       [] col = "Latest Link" -> l]

\* rows with an empty Video Count, and with a batch, a category and a text
\* whose names differ from the ones above but normalize to the same keys
OtherRows ==
  { MkRow(<<"d","h","a","n","y","o","s","i">>, Satsang, <<"G","i","t","a">>, <<>>,
          <<"P","L","2">>, <<"n","o">>, <<>>),
    MkRow(Dhanyosi, Satsang, <<" ","g","i","t","a">>, <<"7">>,
          <<"P","L","2">>, <<"Y","e","s">>, <<"V","9">>),
    MkRow(Dhanyosi, <<"s","a","t","s","a","n","g">>, <<"G","i","t","a">>, <<" ">>,
          <<"P","L","2">>, <<"y","e","s">>, <<"V","9">>) }

WellFormedRows ==
  {MkRow(b, c, t, v, p, o, l) :
     b \in BatchFields, c \in CategoryFields, t \in TextFields,
     v \in VideoCountFields, p \in PlaylistFields,
     o \in IsOngoingFields, l \in LatestLinkFields} \cup OtherRows

\* a row whose Video Count int() rejects, and a row with a column missing
MalformedRows ==
  { MkRow(Dhanyosi, Satsang, <<"G","i","t","a">>, <<"x">>, <<"P","L","1">>, <<"n","o">>, <<>>),
    [col \in Columns \ {"Latest Link"} |-> <<>>] }

InputRows == WellFormedRows \cup MalformedRows

\* the strings normalize_key is applied to in SpecNorm
Alphabet == {"A", "a", " ", "-", "|", ".", "_", "\t"}

Strings == UNION {[1..n -> Alphabet] : n \in 0..MaxLen}

(* ---------------- the run of generate_data_json ---------------- *)

NoRow == <<>>

InitialData ==
  [site_info |-> [title |-> <<"Brahma Vidya Mandir">>,
                  description |-> <<"Learning Portal">>,
                  last_updated |-> <<"%Y-%m-%d">>],
   batches |-> <<>>,
   metadata |-> <<>>]

Init ==
  /\ pc = "start"
  /\ row = NoRow
  /\ rows_done = <<>>
  /\ data = InitialData
  /\ outfile = "untouched"
  /\ nk_name = <<>>
  /\ nk_key = <<>>

\* open('Classes.csv') succeeds
OpenInput ==
  /\ pc = "start"
  /\ pc' = "reading"
  /\ UNCHANGED <<row, rows_done, data, outfile, nk_name, nk_key>>

\* open('Classes.csv') raises FileNotFoundError
InputNotFound ==
  /\ pc = "start"
  /\ pc' = "aborted"
  /\ UNCHANGED <<row, rows_done, data, outfile, nk_name, nk_key>>

\* one iteration of the loop over the reader
ReadRow(r) ==
  /\ pc = "reading"
  /\ Len(rows_done) < MaxRows
  /\ ~RowRaises(r)
  /\ row' = r
  /\ rows_done' = Append(rows_done, r)
  /\ data' = [data EXCEPT !.batches = process_row(@, r)]
  /\ UNCHANGED <<pc, outfile, nk_name, nk_key>>

\* an iteration that raises while it parses the row's fields
RowError(r) ==
  /\ pc = "reading"
  /\ Len(rows_done) < MaxRows
  /\ RowRaises(r)
  /\ row' = r
  /\ pc' = "aborted"
  /\ UNCHANGED <<rows_done, data, outfile, nk_name, nk_key>>

\* the reader is exhausted: the counts are computed and stored
EndOfInput ==
  /\ pc = "reading"
  /\ data' = [data EXCEPT !.metadata = compute_metadata(data.batches)]
  /\ pc' = "computed"
  /\ UNCHANGED <<row, rows_done, outfile, nk_name, nk_key>>

\* open('data.json', 'w') succeeds and truncates the file
OpenOutput ==
  /\ pc = "computed"
  /\ outfile' = "truncated"
  /\ pc' = "writing"
  /\ UNCHANGED <<row, rows_done, data, nk_name, nk_key>>

\* open('data.json', 'w') raises
OpenOutputFails ==
  /\ pc = "computed"
  /\ pc' = "aborted"
  /\ UNCHANGED <<row, rows_done, data, outfile, nk_name, nk_key>>

\* json.dump writes the whole document and the file is closed
Dump ==
  /\ pc = "writing"
  /\ outfile' = "complete"
  /\ pc' = "done"
  /\ UNCHANGED <<row, rows_done, data, nk_name, nk_key>>

\* a write of json.dump, or the flush at close, raises OSError
DumpFails ==
  /\ pc = "writing"
  /\ outfile' \in {"truncated", "partial"}
  /\ pc' = "aborted"
  /\ UNCHANGED <<row, rows_done, data, nk_name, nk_key>>

Next ==
  \/ OpenInput
  \/ InputNotFound
  \/ \E r \in InputRows : ReadRow(r)
  \/ \E r \in InputRows : RowError(r)
  \/ EndOfInput
  \/ OpenOutput
  \/ OpenOutputFails
  \/ Dump
  \/ DumpFails

Spec == Init /\ [][Next]_vars

(* ---------------- normalize_key applied to arbitrary strings ---------------- *)

InitNorm ==
  /\ pc = "norm_in"
  /\ nk_name \in Strings
  /\ nk_key = <<>>
  /\ row = NoRow
  /\ rows_done = <<>>
  /\ data = InitialData
  /\ outfile = "untouched"

\* key = normalize_key(name)
Normalize ==
  /\ pc = "norm_in"
  /\ nk_key' = normalize_key(nk_name)
  /\ pc' = "norm_out"
  /\ UNCHANGED <<nk_name, row, rows_done, data, outfile>>

\* the key is used as a name in its turn
Renormalize ==
  /\ pc = "norm_out"
  /\ nk_name' = nk_key
  /\ pc' = "norm_in"
  /\ UNCHANGED <<nk_key, row, rows_done, data, outfile>>

NextNorm == Normalize \/ Renormalize

SpecNorm == InitNorm /\ [][NextNorm]_vars

(* ---------------- vocabulary of the properties ---------------- *)

\* the text nodes of the document, as triples of keys
Nodes(batches) ==
  UNION {UNION {{<<bk, ck, tk>> : tk \in DOMAIN batches[bk].categories[ck].texts} :
                ck \in DOMAIN batches[bk].categories} :
         bk \in DOMAIN batches}

\* the playlist list of a text node; empty where there is no such node
Playlists(batches, n) ==
  IF n \in Nodes(batches)
  THEN batches[n[1]].categories[n[2]].texts[n[3]].playlists
  ELSE <<>>

\* every playlist entry of the document, as a node and a position in its list
Entries(batches) ==
  UNION {{<<n, i>> : i \in 1..Len(Playlists(batches, n))} : n \in Nodes(batches)}

IsPrefix(s, t) == Len(s) <= Len(t) /\ SubSeq(t, 1, Len(s)) = s

\* the step taken is one iteration of the loop, over row'
RowStep == pc = "reading" /\ pc' = "reading" /\ rows_done' = Append(rows_done, row')

BatchKeyOf(r) == normalize_key(batch_name_of(r))

NaturalKeyOf(r) == normalize_key(category_name_of(r))

TextKeyOf(r) == normalize_key(text_name_of(r))

NaturalNode(r) == <<BatchKeyOf(r), NaturalKeyOf(r), TextKeyOf(r)>>

OngoingNode(r) == <<BatchKeyOf(r), ongoing_key, TextKeyOf(r)>>

\* C1: processing a row whose Is Ongoing flag is true adds the record in
\* exactly two places, one entry in the text list under its natural category
\* and one in the text list under the "ongoing" category of the same batch,
\* the two categories being distinct.
C1_OngoingRowInTwoCategories ==
  [][(RowStep /\ is_ongoing_of(row')) =>
       /\ NaturalKeyOf(row') # ongoing_key
       /\ Cardinality(Entries(data'.batches)) = Cardinality(Entries(data.batches)) + 2
       /\ Len(Playlists(data'.batches, NaturalNode(row')))
            = Len(Playlists(data.batches, NaturalNode(row'))) + 1
       /\ Len(Playlists(data'.batches, OngoingNode(row')))
            = Len(Playlists(data.batches, OngoingNode(row'))) + 1]_vars

\* C2: the entry appended for the row's natural category, the first one the
\* row appends to the natural category's text list, never carries
\* latest_video_id.
C2_NaturalCopyWithoutLatest ==
  [][RowStep =>
       LET entry == Playlists(data'.batches, NaturalNode(row'))
                      [Len(Playlists(data.batches, NaturalNode(row'))) + 1]
       IN  "latest_video_id" \notin DOMAIN entry]_vars

\* C3: processing a row whose Is Ongoing flag is false appends exactly one
\* entry to the whole document, at the end of the text list of the row's
\* natural category under the row's batch, and changes no other text list.
C3_NotOngoingRowInOneCategory ==
  [][(RowStep /\ ~is_ongoing_of(row')) =>
       /\ Cardinality(Entries(data'.batches)) = Cardinality(Entries(data.batches)) + 1
       /\ Len(Playlists(data'.batches, NaturalNode(row')))
            = Len(Playlists(data.batches, NaturalNode(row'))) + 1
       /\ IsPrefix(Playlists(data.batches, NaturalNode(row')),
                   Playlists(data'.batches, NaturalNode(row')))
       /\ \A n \in (Nodes(data.batches) \cup Nodes(data'.batches)) \ {NaturalNode(row')} :
            Playlists(data'.batches, n) = Playlists(data.batches, n)]_vars

C3_Witness ==
  /\ pc = "reading"
  /\ Len(rows_done) = 2
  /\ is_ongoing_of(rows_done[1])
  /\ ~is_ongoing_of(row)
  /\ BatchKeyOf(rows_done[1]) = BatchKeyOf(row)
  /\ Cardinality(Entries(data.batches)) = 3

\* C4: once computed, the counts of metadata equal the direct enumeration of
\* the document: the batch keys, the (batch, category) pairs, the text nodes
\* and the playlist entries.
C4_CountsEqualEnumeration ==
  data.metadata # <<>> =>
    /\ data.metadata.total_batches = Cardinality(DOMAIN data.batches)
    /\ data.metadata.total_categories =
         Cardinality(UNION {{<<bk, ck>> : ck \in DOMAIN data.batches[bk].categories} :
                            bk \in DOMAIN data.batches})
    /\ data.metadata.total_texts = Cardinality(Nodes(data.batches))
    /\ data.metadata.total_playlists = Cardinality(Entries(data.batches))

C4_Witness ==
  /\ pc = "done"
  /\ data.metadata.total_batches = 2
  /\ \E ck \in DOMAIN data.batches[normalize_key(Dhanyosi)].categories :
       ck \in DOMAIN data.batches[normalize_key(Jignasu)].categories
  /\ data.metadata.total_categories = 3
  /\ data.metadata.total_playlists = 3

\* the keys each of the rows reaches
RowKeys(rows) ==
  [i \in 1..Len(rows) |->
     [batch |-> BatchKeyOf(rows[i]),
      natural |-> NaturalKeyOf(rows[i]),
      text |-> TextKeyOf(rows[i]),
      ongoing |-> is_ongoing_of(rows[i])]]

\* a row with keys k files an entry under category ck of batch bk
HitsCategory(k, bk, ck) ==
  /\ k.batch = bk
  /\ k.natural = ck \/ (k.ongoing /\ ck = ongoing_key)

Least(S) == CHOOSE i \in S : \A j \in S : i <= j

\* the index of the first row that reaches the batch, the category, the text node
FirstOfBatch(keys, bk) ==
  Least({i \in DOMAIN keys : keys[i].batch = bk})

FirstOfCategory(keys, bk, ck) ==
  Least({i \in DOMAIN keys : HitsCategory(keys[i], bk, ck)})

FirstOfText(keys, bk, ck, tk) ==
  Least({i \in DOMAIN keys : HitsCategory(keys[i], bk, ck) /\ keys[i].text = tk})

\* the name and description are the ones of the first row that reached the key
CreatedByFirstRow(batches, rows, keys) ==
  \A bk \in DOMAIN batches :
    /\ LET info == get_batch_info(batch_name_of(rows[FirstOfBatch(keys, bk)]))
       IN  /\ batches[bk].name = info.name
           /\ batches[bk].description = info.description
    /\ \A ck \in DOMAIN batches[bk].categories :
         /\ LET first == FirstOfCategory(keys, bk, ck)
                info == get_category_info(category_name_of(rows[first]))
            IN  IF keys[first].natural = ck
                THEN /\ batches[bk].categories[ck].name = info.name
                     /\ batches[bk].categories[ck].description = info.description
                ELSE /\ batches[bk].categories[ck].name = <<"O","n","g","o","i","n","g">>
                     /\ batches[bk].categories[ck].description
                          = <<"Current studies across different texts">>
         /\ \A tk \in DOMAIN batches[bk].categories[ck].texts :
              LET text_name == text_name_of(rows[FirstOfText(keys, bk, ck, tk)])
              IN  /\ batches[bk].categories[ck].texts[tk].name = text_name
                  /\ batches[bk].categories[ck].texts[tk].description
                       = text_name \o <<" study">>

\* C5: a batch, category or text node keeps the name and description it was
\* created with: no step changes them or removes the node, and they are the
\* ones of the first row that reached the node's key.
C5_NodesKeepFirstNameAndDescription ==
  /\ [][\A bk \in DOMAIN data.batches :
          /\ bk \in DOMAIN data'.batches
          /\ data'.batches[bk].name = data.batches[bk].name
          /\ data'.batches[bk].description = data.batches[bk].description
          /\ \A ck \in DOMAIN data.batches[bk].categories :
               /\ ck \in DOMAIN data'.batches[bk].categories
               /\ data'.batches[bk].categories[ck].name
                    = data.batches[bk].categories[ck].name
               /\ data'.batches[bk].categories[ck].description
                    = data.batches[bk].categories[ck].description
               /\ \A tk \in DOMAIN data.batches[bk].categories[ck].texts :
                    /\ tk \in DOMAIN data'.batches[bk].categories[ck].texts
                    /\ data'.batches[bk].categories[ck].texts[tk].name
                         = data.batches[bk].categories[ck].texts[tk].name
                    /\ data'.batches[bk].categories[ck].texts[tk].description
                         = data.batches[bk].categories[ck].texts[tk].description]_vars
  /\ [](CreatedByFirstRow(data.batches, rows_done, RowKeys(rows_done)))

C5_Witness ==
  /\ Len(rows_done) = 2
  /\ BatchKeyOf(rows_done[1]) = BatchKeyOf(rows_done[2])
  /\ get_batch_info(batch_name_of(rows_done[1])) # get_batch_info(batch_name_of(rows_done[2]))
  /\ NaturalKeyOf(rows_done[1]) = NaturalKeyOf(rows_done[2])
  /\ get_category_info(category_name_of(rows_done[1]))
       # get_category_info(category_name_of(rows_done[2]))
  /\ data.batches[BatchKeyOf(row)].name = get_batch_info(batch_name_of(rows_done[1])).name
  /\ data.batches[BatchKeyOf(row)].categories[NaturalKeyOf(row)].name
       = get_category_info(category_name_of(rows_done[1])).name

\* C6: a run never leaves a half-written output file: when the run has
\* failed the file is untouched, and when it has succeeded the file holds
\* the complete document.
C6_NoHalfWrittenOutput ==
  /\ pc = "aborted" => outfile = "untouched"
  /\ pc = "done" => outfile = "complete"

\* the identifying fields of a playlist entry
Identity(entry) ==
  [name |-> entry.name, playlist_id |-> entry.playlist_id, video_count |-> entry.video_count]

\* what the rows, taken in input order, file under node n: one entry for the
\* natural category, then one for the ongoing category when the row is ongoing
RECURSIVE FiledUnder(_, _)
FiledUnder(rows, n) ==
  IF rows = <<>> THEN <<>>
  ELSE LET r == rows[Len(rows)]
           id == [name |-> text_name_of(r),
                  playlist_id |-> playlist_id_of(r),
                  video_count |-> video_count_of(r)]
           natural == IF NaturalNode(r) = n THEN <<id>> ELSE <<>>
           ongoing == IF is_ongoing_of(r) /\ OngoingNode(r) = n THEN <<id>> ELSE <<>>
       IN  FiledUnder(SubSeq(rows, 1, Len(rows) - 1), n) \o natural \o ongoing

\* the number of entries the rows file: one each, two for an ongoing row
RECURSIVE FiledCount(_)
FiledCount(rows) ==
  IF rows = <<>> THEN 0
  ELSE (IF is_ongoing_of(Head(rows)) THEN 2 ELSE 1) + FiledCount(Tail(rows))

\* C7: every playlist list is append-only, keeps insertion order and is never
\* deduplicated: a step leaves each existing list as a prefix of the new one,
\* each list holds its rows' entries in the order of the input, and the
\* document holds one entry per row and target category, rows repeated
\* included.
C7_PlaylistsAppendOnlyInInputOrder ==
  /\ [][\A n \in Nodes(data.batches) :
          /\ n \in Nodes(data'.batches)
          /\ IsPrefix(Playlists(data.batches, n), Playlists(data'.batches, n))]_vars
  /\ [](\A n \in Nodes(data.batches)
                   \cup {NaturalNode(rows_done[i]) : i \in 1..Len(rows_done)}
                   \cup {OngoingNode(rows_done[i]) : i \in 1..Len(rows_done)} :
          LET list == Playlists(data.batches, n)
          IN  [i \in 1..Len(list) |-> Identity(list[i])] = FiledUnder(rows_done, n))
  /\ [](Cardinality(Entries(data.batches)) = FiledCount(rows_done))

C7_Witness ==
  /\ Len(rows_done) = 2
  /\ rows_done[1] = rows_done[2]
  /\ is_ongoing_of(row)
  /\ NaturalKeyOf(row) # ongoing_key
  /\ Len(Playlists(data.batches, NaturalNode(row))) = 2
  /\ Len(Playlists(data.batches, OngoingNode(row))) = 2
  /\ Cardinality(Entries(data.batches)) = 4

\* C8: normalize_key is idempotent: normalizing a key it produced returns
\* the key unchanged.
C8_NormalizeKeyIdempotent ==
  pc = "norm_out" => normalize_key(nk_key) = nk_key

C8_Witness ==
  /\ pc = "norm_out"
  /\ nk_name = <<"|", "\t", "A">>
  /\ nk_key = <<"a">>

\* C9: the entry an ongoing row appends on the ongoing-category branch, the
\* last of the ongoing category's text list, carries latest_video_id exactly
\* when the trimmed Latest Link is not empty, with the trimmed link as value;
\* the entry of a row that is not ongoing does not carry the field, and while
\* no ongoing row was processed no entry of the document carries it.
C9_LatestVideoIdOnlyWhenLinked ==
  /\ [][RowStep =>
          LET link == Strip(row'["Latest Link"])
              ongoing == Playlists(data'.batches, OngoingNode(row'))
              natural == Playlists(data'.batches, NaturalNode(row'))
          IN  IF is_ongoing_of(row')
              THEN /\ "latest_video_id" \in DOMAIN ongoing[Len(ongoing)] <=> link # <<>>
                   /\ link # <<>> => ongoing[Len(ongoing)].latest_video_id = link
              ELSE "latest_video_id" \notin DOMAIN natural[Len(natural)]]_vars
  /\ []((\A i \in 1..Len(rows_done) : ~is_ongoing_of(rows_done[i])) =>
          \A e \in Entries(data.batches) :
            "latest_video_id" \notin DOMAIN Playlists(data.batches, e[1])[e[2]])

C9_Witness ==
  /\ Len(rows_done) = 2
  /\ is_ongoing_of(rows_done[1]) /\ is_ongoing_of(rows_done[2])
  /\ OngoingNode(rows_done[1]) = OngoingNode(rows_done[2])
  /\ rows_done[1]["Latest Link"] = <<"V", "9", " ">>
  /\ rows_done[2]["Latest Link"] = <<" ">>
  /\ LET list == Playlists(data.batches, OngoingNode(row))
     IN  /\ list[Len(list) - 1].latest_video_id = <<"V", "9">>
         /\ "latest_video_id" \notin DOMAIN list[Len(list)]

\* C10: after each processed row the document has no empty node: every
\* batch has a category, every category a text and every text a playlist
\* entry; hence total_batches <= total_categories <= total_texts <=
\* total_playlists once the counts are computed.
C10_NoEmptyNodes ==
  /\ \A bk \in DOMAIN data.batches :
       /\ DOMAIN data.batches[bk].categories # {}
       /\ \A ck \in DOMAIN data.batches[bk].categories :
            /\ DOMAIN data.batches[bk].categories[ck].texts # {}
            /\ \A tk \in DOMAIN data.batches[bk].categories[ck].texts :
                 Len(data.batches[bk].categories[ck].texts[tk].playlists) >= 1
  /\ data.metadata # <<>> =>
       /\ data.metadata.total_batches <= data.metadata.total_categories
       /\ data.metadata.total_categories <= data.metadata.total_texts
       /\ data.metadata.total_texts <= data.metadata.total_playlists

C10_Witness ==
  /\ pc = "done"
  /\ Len(rows_done) = 2
  /\ video_count_of(rows_done[1]) = 0
  /\ data.metadata.total_batches = 1
  /\ data.metadata.total_categories = 2
  /\ data.metadata.total_texts = 2
  /\ data.metadata.total_playlists = 3

====
